---- MODULE Spec2Model ----
(***************************************************************************)
(* Williams Fractal indicator (src/indicators/williams_fractal.rs).        *)
(*                                                                         *)
(* The detector keeps the highs, the lows and the (close > open) flags of  *)
(* the last five bars in three 5-slot rings and a write cursor t_i.  Each  *)
(* call to next writes the input bar at the cursor, evaluates the bullish  *)
(* and the bearish pattern over the slots 1..4 steps back, advances the    *)
(* cursor and returns Bullish(low), Bearish(high) or Neither.              *)
(*                                                                         *)
(* f64 values are modelled by small integers plus NaN; every comparison    *)
(* with NaN is false, as in IEEE 754.                                      *)
(***************************************************************************)
EXTENDS Integers, Sequences, FiniteSets

VARIABLES
    highs,       \* self.highs: [f64; 5]
    lows,        \* self.lows: [f64; 5]
    is_bullish,  \* self.is_bullish: [bool; 5]
    t_i,         \* self.t_i: usize
    result,      \* the value returned by the last call to next
    ctor,        \* history: the constructor that built the detector
    steps,       \* history: number of calls to next so far (saturates at StepCap)
    window,      \* history: the last (at most 5) bars in arrival order, seeds included
    cursors,     \* history: the cursor before each of the last (at most 5) calls
    twin,        \* history: a detector built by new from the first 4 step bars
    age,         \* history: per slot, the number of calls since the slot's bar arrived
    mono,        \* history: every bar so far had a higher high and a higher low than the one before
    shadow,      \* history: a detector built by new whose slot 4 started with other content
    prev_bull,   \* history: calls between the last call and the latest earlier Bullish
    prev_bear    \* history: calls between the last call and the latest earlier Bearish
                 \* (the last three are kept only by the specifications that follow them)

vars == <<highs, lows, is_bullish, t_i, result, ctor, steps, window, cursors, twin, age, mono,
          shadow, prev_bull, prev_bear>>

---------------------------------------------------------------------------
(* Bounds of the model *)

\* prices range over 0..MaxPrice
MaxPrice == 2
\* the call counter stops counting here
StepCap == 5
\* prices of the rising series range over 0..MaxWide
MaxWide == 5

(* f64 *)

\* f64::NAN, a value outside the ordered prices
NaN == 0 - 1

Prices == 0..MaxPrice

\* a < b on f64: false when either side is NaN
Lt(a, b) == a # NaN /\ b # NaN /\ a < b

\* a > b on f64: false when either side is NaN
Gt(a, b) == a # NaN /\ b # NaN /\ a > b

\* a <= b on f64: false when either side is NaN
Le(a, b) == a # NaN /\ b # NaN /\ a <= b

(* The bars supplied to the constructors and to next *)

\* a bar that opens at its high and closes at its low
Falling(l) == [high |-> l + 1, low |-> l, open |-> l + 1, close |-> l]

\* a bar that opens at its low and closes at its high
Rising(l) == [high |-> l + 1, low |-> l, open |-> l, close |-> l + 1]

\* a bar that closes where it opened
Flat(l) == [high |-> l + 1, low |-> l, open |-> l, close |-> l]

\* a bar whose close is NaN
NoClose(l) == [high |-> l + 1, low |-> l, open |-> l, close |-> NaN]

\* the price of the flat and NaN bars
MidPrice == MaxPrice - 1

\* the bars with a direction: close above or below open
PlainBars == {Falling(l) : l \in 0..MaxPrice} \cup {Rising(l) : l \in 0..MaxPrice}

\* a bar whose high is the farther up the lower its low
Spread(b) == [b EXCEPT !.high = MaxPrice + MaxPrice + 1 - b.low]

\* falling and rising bars whose highs run up where their lows run down
SpreadBars == {Spread(b) : b \in PlainBars}

Bars == {Falling(l) : l \in Prices} \cup {Rising(l) : l \in Prices}
            \cup {Flat(MidPrice), NoClose(MidPrice)}

(* The bars of the rising series: any high, any low, falling or rising *)

WidePrices == 0..MaxWide

WideBars == {[high |-> h, low |-> l, open |-> oc[1], close |-> oc[2]] :
                h \in WidePrices, l \in WidePrices, oc \in {<<1, 0>>, <<0, 1>>}}

\* b has a higher high and a higher low than a
Above(a, b) == Gt(b.high, a.high) /\ Gt(b.low, a.low)

\* every bar of h is above the one before
Increasing(h) == \A i \in 1..(Len(h) - 1) : Above(h[i], h[i + 1])

---------------------------------------------------------------------------
(* The detector *)

\* the length of the three rings
RingLen == 5

Slots == 0..(RingLen - 1)

\* WilliamsFractalType
Neither == [tag |-> "Neither"]
Bullish(v) == [tag |-> "Bullish", val |-> v]
Bearish(v) == [tag |-> "Bearish", val |-> v]

\* before the first call to next nothing has been returned
NoResult == [tag |-> "NoResult"]

\* new with the cursor left on the last seeded slot
New_CursorOnLast(past_highs, past_lows, past_opens, past_closes) ==
    [highs      |-> [i \in Slots |-> IF i < 4 THEN past_highs[i + 1] ELSE 0],
     lows       |-> [i \in Slots |-> IF i < 4 THEN past_lows[i + 1] ELSE 0],
     is_bullish |-> [i \in Slots |-> IF i < 4
                                     THEN Gt(past_closes[i + 1], past_opens[i + 1])
                                     ELSE FALSE],
     t_i        |-> 3]

\* WilliamsFractal::new: the 4 past bars go to slots 0..3, slot 4 keeps
\* 0.0 / false, the cursor starts at 4
New(past_highs, past_lows, past_opens, past_closes) ==
    [highs      |-> [i \in Slots |-> IF i < 4 THEN past_highs[i + 1] ELSE 0],
     lows       |-> [i \in Slots |-> IF i < 4 THEN past_lows[i + 1] ELSE 0],
     is_bullish |-> [i \in Slots |-> IF i < 4
                                     THEN Gt(past_closes[i + 1], past_opens[i + 1])
                                     ELSE FALSE],
     t_i        |-> 4]

\* initial with the cursor left after the seed instead of on slot 0
Initial_CursorAfterSeed(high, low, open, close) ==
    [highs      |-> [i \in Slots |-> high],
     lows       |-> [i \in Slots |-> low],
     is_bullish |-> [i \in Slots |-> Gt(close, open)],
     t_i        |-> 1]

\* WilliamsFractal::initial: the seed fills all five slots, the cursor starts at 0
Initial(high, low, open, close) ==
    [highs      |-> [i \in Slots |-> high],
     lows       |-> [i \in Slots |-> low],
     is_bullish |-> [i \in Slots |-> Gt(close, open)],
     t_i        |-> 0]

\* WilliamsFractal::from_data: as new, from 4 bars
FromData(past) ==
    [highs      |-> [i \in Slots |-> IF i < 4 THEN past[i + 1].high ELSE 0],
     lows       |-> [i \in Slots |-> IF i < 4 THEN past[i + 1].low ELSE 0],
     is_bullish |-> [i \in Slots |-> IF i < 4
                                     THEN Gt(past[i + 1].close, past[i + 1].open)
                                     ELSE FALSE],
     t_i        |-> 4]

\* WilliamsFractal::from_initial: as initial, from a bar
FromInitial(initial) ==
    [highs      |-> [i \in Slots |-> initial.high],
     lows       |-> [i \in Slots |-> initial.low],
     is_bullish |-> [i \in Slots |-> Gt(initial.close, initial.open)],
     t_i        |-> 0]

\* the input bar written one slot after the cursor
WriteBar_AfterAdvance(self, input) ==
    [self EXCEPT !.highs[(self.t_i + 1) % 5] = input.high,
                 !.lows[(self.t_i + 1) % 5] = input.low,
                 !.is_bullish[(self.t_i + 1) % 5] = Gt(input.close, input.open)]

\* the direction flag of the input bar left unwritten
WriteBar_SkipFlag(self, input) ==
    [self EXCEPT !.highs[self.t_i] = input.high,
                 !.lows[self.t_i] = input.low]

\* next, lines 143-145: the input bar is written at the cursor
WriteBar(self, input) ==
    [self EXCEPT !.highs[self.t_i] = input.high,
                 !.lows[self.t_i] = input.low,
                 !.is_bullish[self.t_i] = Gt(input.close, input.open)]

\* the wrap-around branch without the ring length
IndexBack_NoRing(c, i) == IF c >= i THEN c - i ELSE i - c

\* the wrap-around branch taken one step late
IndexBack_LateWrap(c, i) == IF c + 1 >= i THEN (c + 1 - i) % 5 ELSE 5 - (i - c)

\* the wrap-around branch one slot short
IndexBack_OffByOne(c, i) == IF c >= i THEN c - i ELSE 4 - (i - c)

\* next, lines 149-152: the slot i steps before the cursor c
IndexBack(c, i) == IF c >= i THEN c - i ELSE 5 - (i - c)

\* the bullish pattern without the comparison of t-3 with t-4
BullishCond_NoOuterLow(self) ==
    LET c == self.t_i
        t1_i == IndexBack(c, 1)
        t2_i == IndexBack(c, 2)
        t3_i == IndexBack(c, 3)
        t4_i == IndexBack(c, 4)
    IN  /\ Lt(self.lows[t2_i], self.lows[t3_i])
        /\ Gt(self.lows[t1_i], self.lows[t2_i])
        /\ Gt(self.lows[c], self.lows[t1_i])
        /\ ~self.is_bullish[t4_i]
        /\ ~self.is_bullish[t3_i]
        /\ ~self.is_bullish[t2_i]
        /\ self.is_bullish[t1_i]
        /\ self.is_bullish[c]

\* the bullish pattern without the direction test of t-4
BullishCond_NoOuterDir(self) ==
    LET c == self.t_i
        t1_i == IndexBack(c, 1)
        t2_i == IndexBack(c, 2)
        t3_i == IndexBack(c, 3)
        t4_i == IndexBack(c, 4)
    IN  /\ Lt(self.lows[t3_i], self.lows[t4_i])
        /\ Lt(self.lows[t2_i], self.lows[t3_i])
        /\ Gt(self.lows[t1_i], self.lows[t2_i])
        /\ Gt(self.lows[c], self.lows[t1_i])
        /\ ~self.is_bullish[t3_i]
        /\ ~self.is_bullish[t2_i]
        /\ self.is_bullish[t1_i]
        /\ self.is_bullish[c]

\* next, lines 156-164: the bullish pattern over the written rings
BullishCond(self) ==
    LET c == self.t_i
        t1_i == IndexBack(c, 1)
        t2_i == IndexBack(c, 2)
        t3_i == IndexBack(c, 3)
        t4_i == IndexBack(c, 4)
    IN  /\ Lt(self.lows[t3_i], self.lows[t4_i])
        /\ Lt(self.lows[t2_i], self.lows[t3_i])
        /\ Gt(self.lows[t1_i], self.lows[t2_i])
        /\ Gt(self.lows[c], self.lows[t1_i])
        /\ ~self.is_bullish[t4_i]
        /\ ~self.is_bullish[t3_i]
        /\ ~self.is_bullish[t2_i]
        /\ self.is_bullish[t1_i]
        /\ self.is_bullish[c]

\* the bearish pattern with the last two comparisons left as they are in
\* the bullish pattern (>), only lows replaced by highs
BearishCond_CopiedTail(self) ==
    LET c == self.t_i
        t1_i == IndexBack(c, 1)
        t2_i == IndexBack(c, 2)
        t3_i == IndexBack(c, 3)
        t4_i == IndexBack(c, 4)
    IN  /\ Gt(self.highs[t3_i], self.highs[t4_i])
        /\ Gt(self.highs[t2_i], self.highs[t3_i])
        /\ Gt(self.highs[t1_i], self.highs[t2_i])
        /\ Gt(self.highs[c], self.highs[t1_i])
        /\ self.is_bullish[t4_i]
        /\ self.is_bullish[t3_i]
        /\ self.is_bullish[t2_i]
        /\ ~self.is_bullish[t1_i]
        /\ ~self.is_bullish[c]

\* the bearish pattern with the direction tests of the bullish pattern
BearishCond_CopiedDirs(self) ==
    LET c == self.t_i
        t1_i == IndexBack(c, 1)
        t2_i == IndexBack(c, 2)
        t3_i == IndexBack(c, 3)
        t4_i == IndexBack(c, 4)
    IN  /\ Gt(self.highs[t3_i], self.highs[t4_i])
        /\ Gt(self.highs[t2_i], self.highs[t3_i])
        /\ Lt(self.highs[t1_i], self.highs[t2_i])
        /\ Lt(self.highs[c], self.highs[t1_i])
        /\ ~self.is_bullish[t4_i]
        /\ ~self.is_bullish[t3_i]
        /\ ~self.is_bullish[t2_i]
        /\ self.is_bullish[t1_i]
        /\ self.is_bullish[c]

\* the bearish pattern without its direction tests
BearishCond_NoDirs(self) ==
    LET c == self.t_i
        t1_i == IndexBack(c, 1)
        t2_i == IndexBack(c, 2)
        t3_i == IndexBack(c, 3)
        t4_i == IndexBack(c, 4)
    IN  /\ Gt(self.highs[t3_i], self.highs[t4_i])
        /\ Gt(self.highs[t2_i], self.highs[t3_i])
        /\ Lt(self.highs[t1_i], self.highs[t2_i])
        /\ Lt(self.highs[c], self.highs[t1_i])

\* next, lines 166-174: the bearish pattern over the written rings
BearishCond(self) ==
    LET c == self.t_i
        t1_i == IndexBack(c, 1)
        t2_i == IndexBack(c, 2)
        t3_i == IndexBack(c, 3)
        t4_i == IndexBack(c, 4)
    IN  /\ Gt(self.highs[t3_i], self.highs[t4_i])
        /\ Gt(self.highs[t2_i], self.highs[t3_i])
        /\ Lt(self.highs[t1_i], self.highs[t2_i])
        /\ Lt(self.highs[c], self.highs[t1_i])
        /\ self.is_bullish[t4_i]
        /\ self.is_bullish[t3_i]
        /\ self.is_bullish[t2_i]
        /\ ~self.is_bullish[t1_i]
        /\ ~self.is_bullish[c]

\* next, lines 177-183: the value returned, bullish tested first
Classify(self) ==
    LET t2_i == IndexBack(self.t_i, 2)
    IN  IF BullishCond(self) THEN Bullish(self.lows[t2_i])
        ELSE IF BearishCond(self) THEN Bearish(self.highs[t2_i])
        ELSE Neither

\* the cursor wrapped one slot early
Advance_WrapAtFour(c) == (c + 1) % 4

\* next, line 176: the cursor advances
Advance(c) == (c + 1) % 5

\* the value next returns on self for input
NextOutput(self, input) == Classify(WriteBar(self, input))

\* the detector after next on self for input
NextState(self, input) ==
    [WriteBar(self, input) EXCEPT !.t_i = Advance(self.t_i)]

---------------------------------------------------------------------------
(* The state machine *)

\* the detector held in the variables
Self == [highs |-> highs, lows |-> lows, is_bullish |-> is_bullish, t_i |-> t_i]

\* no twin detector yet
NoTwin == [tag |-> "NoTwin"]

\* the last five of a history
Last5(h) == IF Len(h) <= 5 THEN h ELSE SubSeq(h, Len(h) - 4, Len(h))

\* no shadow detector
NoShadow == [tag |-> "NoShadow"]

\* self with the high, low and direction of bar g in slot 4
WithSlot4(self, g) ==
    [self EXCEPT !.highs[4] = g.high,
                 !.lows[4] = g.low,
                 !.is_bullish[4] = Gt(g.close, g.open)]

\* 5 calls back or more, or never
FarBack == RingLen

\* the distance is not followed
Unfollowed == FarBack + 1

\* the shadow detector and the distances between fractals are not followed
InitUnfollowed ==
    /\ shadow = NoShadow
    /\ prev_bull = Unfollowed
    /\ prev_bear = Unfollowed

\* they are: the shadow of a detector built by new starts with the high,
\* low and direction of any bar in slot 4
InitFollowed ==
    /\ \E g \in Bars :
          shadow = IF ctor = "new"
                   THEN [wf |-> WithSlot4(Self, g), out |-> NoResult]
                   ELSE NoShadow
    /\ prev_bull = FarBack
    /\ prev_bear = FarBack

\* the distance d one call later, given the tag the last call returned
Farther(d, last, tag) ==
    IF d = Unfollowed THEN Unfollowed
    ELSE IF last = tag THEN 1
    ELSE IF d < FarBack THEN d + 1 ELSE FarBack

\* the state after construction; seeds are the bars the ring holds, oldest
\* first, and the slot at the cursor holds the oldest content
Built(self, kind, seeds) ==
    /\ highs = self.highs
    /\ lows = self.lows
    /\ is_bullish = self.is_bullish
    /\ t_i = self.t_i
    /\ result = NoResult
    /\ ctor = kind
    /\ steps = 0
    /\ window = seeds
    /\ cursors = <<>>
    /\ twin = NoTwin
    /\ age = [i \in Slots |-> (self.t_i + 4 - i) % 5]
    /\ mono = (kind = "initial" \/ Increasing(seeds))

\* new called with the highs, lows, opens and closes of 4 bars
NewOf(past) ==
    New([i \in 1..4 |-> past[i].high], [i \in 1..4 |-> past[i].low],
        [i \in 1..4 |-> past[i].open], [i \in 1..4 |-> past[i].close])

\* a detector built by new from 4 bars
InitNew ==
    \E b1, b2, b3, b4 \in Bars :
        Built(NewOf(<<b1, b2, b3, b4>>), "new", <<b1, b2, b3, b4>>)

\* a detector built by from_data from 4 bars
InitFromData ==
    \E b1, b2, b3, b4 \in Bars :
        Built(FromData(<<b1, b2, b3, b4>>), "new", <<b1, b2, b3, b4>>)

\* a detector built by initial from a seed bar
InitInitial ==
    \E b \in Bars :
        Built(Initial(b.high, b.low, b.open, b.close), "initial", <<b, b, b, b, b>>)

\* a detector built by from_initial from a seed bar
InitFromInitial ==
    \E b \in Bars : Built(FromInitial(b), "initial", <<b, b, b, b, b>>)

Init == (InitNew \/ InitFromData \/ InitInitial \/ InitFromInitial) /\ InitUnfollowed

\* one call wf.next(input)
Next_call(input) ==
    LET after == NextState(Self, input)
        n == IF steps < StepCap THEN steps + 1 ELSE steps
    IN  /\ highs' = after.highs
        /\ lows' = after.lows
        /\ is_bullish' = after.is_bullish
        /\ t_i' = after.t_i
        /\ result' = NextOutput(Self, input)
        /\ steps' = n
        /\ window' = Last5(Append(window, input))
        /\ cursors' = Last5(Append(cursors, t_i))
        /\ twin' = IF ctor = "initial" /\ steps = 4
                   THEN [wf  |-> NextState(NewOf(SubSeq(window, 2, 5)), input),
                         out |-> NextOutput(NewOf(SubSeq(window, 2, 5)), input)]
                   ELSE IF twin # NoTwin
                   THEN [wf  |-> NextState(twin.wf, input),
                         out |-> NextOutput(twin.wf, input)]
                   ELSE twin
        /\ age' = [i \in Slots |-> IF i = t_i THEN 0
                                    ELSE IF age[i] < 5 THEN age[i] + 1 ELSE 5]
        /\ mono' = (mono /\ Above(window[Len(window)], input))
        /\ shadow' = IF shadow # NoShadow
                     THEN [wf  |-> NextState(shadow.wf, input),
                           out |-> NextOutput(shadow.wf, input)]
                     ELSE shadow
        /\ prev_bull' = Farther(prev_bull, result.tag, "Bullish")
        /\ prev_bear' = Farther(prev_bear, result.tag, "Bearish")
        /\ UNCHANGED ctor

Next == \E input \in Bars : Next_call(input)

Spec == Init /\ [][Next]_vars

(* The rising series: seeds and inputs from WideBars, the seeds of new     *)
(* increasing, and calls for as long as the series has been increasing     *)
(* (the bar that breaks the series is still passed to next).               *)

InitMonoNew ==
    \E b1 \in WideBars :
        \E b2 \in {b \in WideBars : Above(b1, b)} :
            \E b3 \in {b \in WideBars : Above(b2, b)} :
                \E b4 \in {b \in WideBars : Above(b3, b)} :
                    Built(NewOf(<<b1, b2, b3, b4>>), "new", <<b1, b2, b3, b4>>)

InitMonoInitial ==
    \E b \in WideBars :
        Built(Initial(b.high, b.low, b.open, b.close), "initial", <<b, b, b, b, b>>)

InitMono == (InitMonoNew \/ InitMonoInitial) /\ InitUnfollowed

NextMono == \E input \in WideBars : mono /\ Next_call(input)

SpecMono == InitMono /\ [][NextMono]_vars

(* The detectors with a shadow and with the distances between fractals     *)
(* followed: seeds and inputs from PlainBars.                              *)

InitPlainNew ==
    \E b1, b2, b3, b4 \in PlainBars :
        Built(NewOf(<<b1, b2, b3, b4>>), "new", <<b1, b2, b3, b4>>)

InitPlainFromData ==
    \E b1, b2, b3, b4 \in PlainBars :
        Built(FromData(<<b1, b2, b3, b4>>), "new", <<b1, b2, b3, b4>>)

InitPlainInitial ==
    \E b \in PlainBars :
        Built(Initial(b.high, b.low, b.open, b.close), "initial", <<b, b, b, b, b>>)

InitPlain == (InitPlainNew \/ InitPlainFromData \/ InitPlainInitial) /\ InitFollowed

NextPlain == \E input \in PlainBars : Next_call(input)

SpecFollowed == InitPlain /\ [][NextPlain]_vars

(* The spread bars: a run of lows down and up comes with a run of highs up *)
(* and down, so both price patterns can hold in one window.                *)

InitSpreadNew ==
    \E b1, b2, b3, b4 \in SpreadBars :
        Built(NewOf(<<b1, b2, b3, b4>>), "new", <<b1, b2, b3, b4>>)

InitSpreadInitial ==
    \E b \in SpreadBars :
        Built(Initial(b.high, b.low, b.open, b.close), "initial", <<b, b, b, b, b>>)

InitSpread == (InitSpreadNew \/ InitSpreadInitial) /\ InitUnfollowed

NextSpread == \E input \in SpreadBars : Next_call(input)

SpecSpread == InitSpread /\ [][NextSpread]_vars

---------------------------------------------------------------------------
(* The five bars of the window, in arrival order: B(4) is the oldest, B(0) *)
(* the bar just passed to next.  Defined once next has been called.        *)

Called == result # NoResult

B(k) == window[Len(window) - k]

\* the cursor the last call wrote at
LastCursor == cursors[Len(cursors)]

\* lows strictly decreasing into B(2), then strictly increasing out
LowRun ==
    /\ Lt(B(3).low, B(4).low)
    /\ Lt(B(2).low, B(3).low)
    /\ Gt(B(1).low, B(2).low)
    /\ Gt(B(0).low, B(1).low)

\* highs strictly increasing into B(2), then strictly decreasing out
HighRun ==
    /\ Gt(B(3).high, B(4).high)
    /\ Gt(B(2).high, B(3).high)
    /\ Lt(B(1).high, B(2).high)
    /\ Lt(B(0).high, B(1).high)

\* the bar direction the detector stores: close > open
Up(b) == Gt(b.close, b.open)

---------------------------------------------------------------------------
(* C1: a detector built by initial / from_initial returns Neither on each  *)
(* of its first 4 calls to next, whatever the 4 bars.                      *)
(* Refuted on the 4th call: the seed and the 4 bars fill the window.       *)
C1_FirstFourCallsNeither ==
    (ctor = "initial" /\ steps \in 1..4) => result = Neither

(* C2: for a detector built by new, next returns Bullish(v) iff the lows   *)
(* run down into B(2) and up out of it, B(4), B(3), B(2) have              *)
(* close <= open and B(1), B(0) have close > open; and then v = low(B(2)). *)
(* Refuted by a bar whose close is NaN: neither close > open nor           *)
(* close <= open holds of it, and the detector stores it as not bullish.   *)
C2_BullishIffLeOpen ==
    (ctor = "new" /\ Called) =>
        /\ (result.tag = "Bullish") <=>
              /\ LowRun
              /\ \A k \in {4, 3, 2} : Le(B(k).close, B(k).open)
              /\ \A k \in {1, 0} : Gt(B(k).close, B(k).open)
        /\ (result.tag = "Bullish") => result.val = B(2).low

(* C3: for a detector built by new, next returns Bearish(v) iff the highs  *)
(* run up into B(2) and down out of it, B(4), B(3), B(2) have close > open *)
(* and B(1), B(0) have close <= open; and then v = high(B(2)).             *)
(* Refuted by a bar whose close is NaN in the place of B(1) or B(0).       *)
C3_BearishIffLeOpen ==
    (ctor = "new" /\ Called) =>
        /\ (result.tag = "Bearish") <=>
              /\ HighRun
              /\ \A k \in {4, 3, 2} : Gt(B(k).close, B(k).open)
              /\ \A k \in {1, 0} : Le(B(k).close, B(k).open)
        /\ (result.tag = "Bearish") => result.val = B(2).high

(* C4: next returns Bullish only if close < open strictly for B(4), B(3),  *)
(* B(2) and close > open for B(1), B(0); Bearish only if close > open for  *)
(* B(4), B(3), B(2) and close < open strictly for B(1), B(0).              *)
(* Refuted by a bar with close = open: the detector tests ~(close > open). *)
C4_StrictDirections ==
    Called =>
        /\ (result.tag = "Bullish") =>
              /\ \A k \in {4, 3, 2} : Lt(B(k).close, B(k).open)
              /\ \A k \in {1, 0} : Gt(B(k).close, B(k).open)
        /\ (result.tag = "Bearish") =>
              /\ \A k \in {4, 3, 2} : Gt(B(k).close, B(k).open)
              /\ \A k \in {1, 0} : Lt(B(k).close, B(k).open)

(* C5: the result of a call is about the bar that arrived two calls        *)
(* earlier: the slot next reads as t-2 holds that bar (its age is 2, and   *)
(* no other slot's is), a Bullish payload is that bar's low, a Bearish     *)
(* payload is that bar's high; since the age of a bar grows by one with    *)
(* every call, a bar is at t-2 in exactly one call.                        *)
C5_CandidateIsTwoBack ==
    Called =>
        LET t2_i == IndexBack(LastCursor, 2)
        IN  /\ age[t2_i] = 2
            /\ \A i \in Slots \ {t2_i} : age[i] # 2
            /\ highs[t2_i] = B(2).high
            /\ lows[t2_i] = B(2).low
            /\ is_bullish[t2_i] = Up(B(2))
            /\ (result.tag = "Bullish") => result.val = B(2).low
            /\ (result.tag = "Bearish") => result.val = B(2).high

\* a fractal reported once the ring has wrapped, about the bar at age 2
C5_Witness ==
    /\ Called
    /\ result.tag = "Bearish"
    /\ LastCursor = 1
    /\ age[IndexBack(LastCursor, 2)] = 2

(* C6: the cursor is in 0..4; a call to next changes it from c to          *)
(* (c + 1) mod 5; after 5 consecutive calls it is back where it was.       *)
C6_CursorCycle ==
    /\ t_i \in 0..4
    /\ Called => t_i = (LastCursor + 1) % 5
    /\ Len(cursors) = 5 => t_i = cursors[1]

\* five calls made on a detector built by initial, the last one reporting
C6_Witness ==
    /\ Len(cursors) = 5
    /\ ctor = "initial"
    /\ t_i = 3
    /\ result.tag = "Bullish"

(* C7: a Bullish payload is strictly below the lows of the other four bars *)
(* of the window; a Bearish payload is strictly above their highs.         *)
C7_StrictExtremum ==
    Called =>
        /\ (result.tag = "Bullish") =>
              \A k \in {4, 3, 1, 0} : Lt(result.val, B(k).low)
        /\ (result.tag = "Bearish") =>
              \A k \in {4, 3, 1, 0} : Gt(result.val, B(k).high)

\* a bullish fractal at the lowest price
C7_Witness == Called /\ result = Bullish(0) /\ B(4).low = MaxPrice

(* C8: once a detector built by initial has been stepped with 5 bars, its  *)
(* rings and cursor equal those of a detector built by new from the first  *)
(* 4 and stepped with the 5th, and both return the same from then on.      *)
C8_SeedConverges ==
    twin # NoTwin => (twin.wf = Self /\ twin.out = result)

\* both detectors report a fractal after the 5th call
C8_Witness ==
    /\ twin # NoTwin
    /\ ctor = "initial"
    /\ result.tag = "Bearish"
    /\ t_i # 0

\* the lows do not run, or the directions are not 3 down then 2 up
NotBullishShape ==
    \/ ~LowRun
    \/ ~(~Up(B(4)) /\ ~Up(B(3)) /\ ~Up(B(2)) /\ Up(B(1)) /\ Up(B(0)))

(* C9 as stated: if the lows do not run down into B(2) and up out of it,   *)
(* or the directions are not 3 bearish bars then 2 bullish bars, next      *)
(* returns Neither.  Refuted by a bearish fractal.                         *)
C9_ElseNeither ==
    (Called /\ NotBullishShape) => result = Neither

(* C9 amended: if the lows do not run down into B(2) and up out of it, or  *)
(* the directions are not 3 bearish bars then 2 bullish bars, next does    *)
(* not return Bullish.                                                     *)
C9_ElseNotBullish ==
    (Called /\ NotBullishShape) => result.tag # "Bullish"

\* the lows run but the oldest bar is a rising one: no bullish fractal
C9_Witness ==
    /\ Called
    /\ LowRun
    /\ Up(B(4)) /\ ~Up(B(3)) /\ ~Up(B(2)) /\ Up(B(1)) /\ Up(B(0))
    /\ result = Neither

(* C10: if the seed bars and all bars passed to next so far had strictly   *)
(* increasing highs and strictly increasing lows, whatever their open and  *)
(* close, next returns Neither, from either constructor.                   *)
C10_RisingSeriesNeither ==
    (Called /\ mono) => result = Neither

\* a rising series whose directions are those of a bearish fractal,
\* two calls after new
C10_Witness ==
    /\ Called
    /\ mono
    /\ ctor = "new"
    /\ Len(cursors) = 2
    /\ Up(B(4)) /\ Up(B(3)) /\ Up(B(2)) /\ ~Up(B(1)) /\ ~Up(B(0))

(* C11: for every cursor 0..4 the four offsets next computes are formed    *)
(* without a subtraction below zero, lie in 0..4, and together with the    *)
(* cursor are the five slots 0..4, each once.                              *)
C11_OffsetsArePermutation ==
    /\ t_i \in Slots
    /\ \A i \in 1..4 :
          /\ t_i < i => (i - t_i >= 0 /\ 5 - (i - t_i) >= 0)
          /\ IndexBack(t_i, i) \in Slots
    /\ Cardinality({t_i} \cup {IndexBack(t_i, i) : i \in 1..4}) = 5

\* a call made with the cursor at 0, where all four offsets wrap
C11_Witness ==
    /\ Called
    /\ LastCursor = 0
    /\ t_i = 1
    /\ result.tag = "Bullish"

(* C12: for every cursor c in 0..4 and every k in 1..4, the offset the     *)
(* two-branch code computes equals (c + 5 - k) mod 5.                      *)
C12_OffsetIsModular ==
    \A k \in 1..4 : IndexBack(t_i, k) = (t_i + 5 - k) % 5

\* the cursor at 2 after a reporting call: offsets 1, 2 do not wrap, 3, 4 do
C12_Witness ==
    /\ Called
    /\ t_i = 2
    /\ result.tag = "Bearish"

(* C13: after every call, for every k in 1..4, the slot next read as       *)
(* "k steps back" is the slot written when the bar k calls earlier arrived *)
(* (its age is k) and holds that bar's high, low and close > open flag.    *)
C13_SlotsHoldHistory ==
    Called =>
        \A k \in 1..4 :
            LET s == IndexBack(LastCursor, k)
            IN  /\ age[s] = k
                /\ highs[s] = B(k).high
                /\ lows[s] = B(k).low
                /\ is_bullish[s] = Up(B(k))

\* five calls made, the ring wrapped, and the four earlier bars not alike
C13_Witness ==
    /\ Len(cursors) = 5
    /\ LastCursor = 2
    /\ B(4).low = 0 /\ B(3).low = MaxPrice /\ B(2).low = 0 /\ B(1).low = MaxPrice
    /\ Up(B(4)) /\ ~Up(B(3)) /\ Up(B(2)) /\ ~Up(B(1))

\* one step writes the bar that arrived at the cursor and nothing else
FrameEffect ==
    LET input == window'[Len(window')]
    IN  /\ highs' = [highs EXCEPT ![t_i] = input.high]
        /\ lows' = [lows EXCEPT ![t_i] = input.low]
        /\ is_bullish' = [is_bullish EXCEPT ![t_i] = Gt(input.close, input.open)]

(* C14: every call overwrites highs[c], lows[c] and is_bullish[c] at the   *)
(* cursor c with the input's high, low and close > open, whatever it       *)
(* returns, and leaves the other four slots of each ring unchanged.        *)
C14_FrameEffect == [][FrameEffect]_vars

\* a call that reported a fractal: the slot at its cursor holds the rising
\* input bar, the slot two steps back still holds the falling bar at 0
C14_Witness ==
    /\ Len(cursors) = 5
    /\ result.tag = "Bullish"
    /\ B(0) = Rising(MaxPrice)
    /\ highs[LastCursor] = MaxPrice + 1
    /\ is_bullish[LastCursor]
    /\ ~is_bullish[IndexBack(LastCursor, 2)]
    /\ lows[IndexBack(LastCursor, 2)] = 0

(* C15: after new / from_data, the content slot 4 starts with is           *)
(* overwritten by the first call before it is read: a detector that        *)
(* differs only in what slot 4 held at construction has, after every       *)
(* call, the same rings and cursor and has returned the same result.       *)
C15_Slot4NeverRead ==
    (Called /\ shadow # NoShadow) => (shadow.wf = Self /\ shadow.out = result)

\* the first call after new reports a fractal, and so does the shadow
C15_Witness ==
    /\ shadow # NoShadow
    /\ ctor = "new"
    /\ steps = 1
    /\ result.tag = "Bullish"
    /\ shadow.out = result

\* the rings as next had them when it classified: written, cursor not yet advanced
AtClassify == [Self EXCEPT !.t_i = LastCursor]

\* the value returned if the bearish pattern were tested first
ClassifyBearishFirst(self) ==
    LET t2_i == IndexBack(self.t_i, 2)
    IN  IF BearishCond(self) THEN Bearish(self.highs[t2_i])
        ELSE IF BullishCond(self) THEN Bullish(self.lows[t2_i])
        ELSE Neither

(* C16: within one call the bullish and the bearish condition are never    *)
(* both true, so the order in which next tests them does not change what   *)
(* it returns.                                                             *)
C16_PatternsExclusive ==
    Called =>
        /\ ~(BullishCond(AtClassify) /\ BearishCond(AtClassify))
        /\ result = ClassifyBearishFirst(AtClassify)

\* both price patterns hold in the window; the directions pick the bearish one
C16_Witness ==
    /\ Called
    /\ LowRun
    /\ HighRun
    /\ result.tag = "Bearish"

(* C17: when next returns Bullish or Bearish, each of the next two calls   *)
(* returns Neither: a call that returns a fractal has no fractal of either *)
(* kind one or two calls before it.                                        *)
C17_TwoCallsNeither ==
    (Called /\ result.tag # "Neither") =>
        (prev_bull \notin {1, 2} /\ prev_bear \notin {1, 2})

\* two calls after a Bullish the highs run up and down, and next returns
\* Neither
C17_Witness ==
    /\ prev_bull = 2
    /\ HighRun
    /\ result = Neither

(* C18: after a Bullish none of the next four calls returns Bullish, and   *)
(* after a Bearish none of the next four calls returns Bearish.            *)
C18_SameKindFiveApart ==
    /\ (Called /\ result.tag = "Bullish") => prev_bull \notin 1..4
    /\ (Called /\ result.tag = "Bearish") => prev_bear \notin 1..4

\* four calls after a Bullish the lows run down and up again, and next
\* does not return Bullish
C18_Witness ==
    /\ prev_bull = 4
    /\ LowRun
    /\ result = Neither

====
